---- MODULE Spec2Model ----
(***************************************************************************)
(* Overwrite engine of the secure-removal library: the chunked writer      *)
(* (writeExtended), the pattern operations of src/src/file.ts, the         *)
(* catalog of standards (src/unnamed/part_000) and the directory mark      *)
(* protocol (dir.mark, folderSet).                                         *)
(*                                                                         *)
(* Spec      : one file hook of the catalog, or one use of an exported     *)
(*             file operation between init and end, on one file.           *)
(* SpecFault : Spec plus a storage medium that may flip one byte.          *)
(* SpecSolo  : one mark-standard tree removal in a fresh process.          *)
(* SpecMark  : two mark-standard tree removals in the same process.        *)
(* SpecDir   : one secure-standard tree removal.                           *)
(***************************************************************************)
EXTENDS Integers, Sequences, FiniteSets, TLC

\* ------------------------------------------------------------------ bounds
MaxSize == 3        \* file sizes 0..MaxSize
MaxChunk == 2       \* kMaxLength ranges over 1..MaxChunk
RandomSteps == 4    \* Math.random() ranges over k/RandomSteps, k < RandomSteps
MaxFiles == 2       \* files per directory of the tree: 0..MaxFiles
MaxFlips == 1       \* bytes the storage medium may flip in one run

\* Sample bytes produced by crypto.randomBytes and found in the file at first.
RandVals == {60, 165}

ByteMod == 256      \* a Buffer element is a Uint8

\* ------------------------------------------------------------------ names
P0 == "f"           \* the path handed to the hook
P1 == "r"           \* the random 12-character name made by rename
NoPath == "none"
NoErr == "null"
NoData == [fd |-> 0, fileName |-> NoPath, fileSize |-> 0]

Max(a, b) == IF a > b THEN a ELSE b

\* ------------------------------------------------------------ buffers, fs
\* Buffer.alloc(len, b): a number fill is coerced to a byte (b & 255).
Fill(len, b) == [k \in 1..len |-> b % ByteMod]

\* Buffer.alloc(len, Buffer.from(data)): the pattern repeats from the start
\* of every buffer.
FillPattern(len, pat) == [k \in 1..len |-> (pat[((k - 1) % Len(pat)) + 1]) % ByteMod]

\* fs.read(fd, Buffer.alloc(len), 0, len, pos): bytes past the end of the file
\* are not read and keep the zero Buffer.alloc gave them.
ReadAt(c, pos, len) == [k \in 1..len |-> IF pos + k <= Len(c) THEN c[pos + k] ELSE 0]

\* fs.write(fd, data, 0, len, pos): overwrites in place, grows the file when
\* the range ends past its end.
WriteAt(c, pos, b) ==
  [k \in 1..Max(Len(c), pos + Len(b)) |->
     IF k > pos /\ k <= pos + Len(b) THEN b[k - pos]
     ELSE IF k <= Len(c) THEN c[k] ELSE 0]

\* fs.ftruncate(fd, n)
Truncated(c, n) == [k \in 1..n |-> IF k <= Len(c) THEN c[k] ELSE 0]

\* (mutant) arithmetic negation in place of the bitwise complement.
ComplementByteNeg(b) == (-b) % ByteMod

\* data[i] = ~data[i] on a Uint8 buffer: ~x is -x-1, stored modulo 256.
ComplementByte(b) == (-b - 1) % ByteMod

Complemented(b) == [k \in 1..Len(b) |-> ComplementByte(b[k])]

\* (mutant) writeExtended always writing a full chunk.
ChunkLenFull(size, pos, kmax) == kmax

\* writeExtended: the length of the chunk written at pos.
ChunkLen(size, pos, kmax) == IF size - pos <= kmax THEN size - pos ELSE kmax

\* (mutant) writeExtended without the recursive call: one write only.
LastChunkAlways(size, pos, kmax) == TRUE

\* writeExtended: TRUE when the chunk at pos is the last one (no recursion).
LastChunk(size, pos, kmax) == size - pos <= kmax

\* (mutant) the random term not halved: a factor between 0.25 and 1.25.
NewSizeWide(fileSize, k) == (fileSize * (RandomSteps + 4 * k)) \div (4 * RandomSteps)

\* truncate: Math.floor((0.25 + Math.random() * 0.5) * fileSize) with
\* Math.random() = k / RandomSteps.
NewSize(fileSize, k) == (fileSize * (RandomSteps + 2 * k)) \div (4 * RandomSteps)

\* ------------------------------------------------------------------ catalog
O(op) == [op |-> op, passes |-> 1, check |-> FALSE, data |-> <<>>]
OP(op, n) == [op |-> op, passes |-> n, check |-> FALSE, data |-> <<>>]
OC(op) == [op |-> op, passes |-> 1, check |-> TRUE, data |-> <<>>]
OD(op, d) == [op |-> op, passes |-> 1, check |-> FALSE, data |-> d]

\* gutmann's forByte: initial 0x00, condition i < 0xFF, increment i + 0x11
ForInitial == 0
ForLimit == 255
ForStep == 17

MarkOps == << O("mark") >>
RandomDataOps == << O("init"), O("random"), O("end") >>
RandomByteOps == << O("init"), O("randomByte"), O("end") >>
NzsitOps == << O("init"), OC("randomByte"), O("end") >>
\* (mutant) zeros without the closing end.
ZerosOpsNoEnd == << O("init"), O("zeros") >>
ZerosOps == << O("init"), O("zeros"), O("end") >>
OnesOps == << O("init"), O("ones"), O("end") >>
\* (mutant) the descriptor of the first init kept after rename.
KeptFd(old, new) == IF old = NoData THEN new ELSE [new EXCEPT !.fd = old.fd]

\* fileData = await file.rename(fileData): the FileData of init(newPath)
\* replaces the one the hook held.
NewFileData(old, new) == new

\* (mutant) secure truncating before it renames.
SecureOpsTruncateFirst ==
  << O("init"), O("random"), O("truncate"), O("rename"), O("resetTimestamps"), O("end") >>
SecureOps ==
  << O("init"), O("random"), O("rename"), O("truncate"), O("resetTimestamps"), O("end") >>
GostOps == << O("init"), O("zeros"), O("random"), O("end") >>
HmgOps == << O("init"), O("zeros"), O("ones"), OC("random"), O("end") >>
DodOps == << O("init"), OC("zeros"), OC("ones"), OC("random"), O("end") >>
ArOps == << O("init"), O("random"), O("randomByte"), O("complementary"), O("end") >>
VsitrOps ==
  << O("init"), O("zeros"), O("ones"), O("zeros"), O("ones"), O("zeros"), O("ones"),
     O("random"), O("end") >>
\* (mutant) schneier with one random pass short.
SchneierOpsFour == << O("init"), O("zeros"), O("ones"), OP("random", 4), O("end") >>
SchneierOps == << O("init"), O("zeros"), O("ones"), OP("random", 5), O("end") >>
PfitznerOps == << O("init"), OP("random", 33), O("end") >>
GutmannOps ==
  << O("init"), OP("random", 4), OD("byte", <<85>>), OD("byte", <<170>>),
     OD("byteArray", <<146, 73, 36>>), OD("byteArray", <<73, 36, 146>>),
     OD("byteArray", <<36, 146, 73>>),
     OD("forByte", <<ForInitial, ForLimit, ForStep>>),
     OD("byteArray", <<146, 73, 36>>), OD("byteArray", <<73, 36, 146>>),
     OD("byteArray", <<36, 146, 73>>), OD("byteArray", <<109, 182, 219>>),
     OD("byteArray", <<182, 219, 109>>), OD("byteArray", <<219, 109, 182>>),
     OP("random", 4), O("end") >>

\* export const standards = { ... }: the unlink hook of each entry
Standards ==
  ("mark" :> MarkOps) @@
  ("randomData" :> RandomDataOps) @@
  ("randomByte" :> RandomByteOps) @@
  ("NZSIT-402" :> NzsitOps) @@
  ("zeros" :> ZerosOps) @@
  ("ones" :> OnesOps) @@
  ("secure" :> SecureOps) @@
  ("GOST_R50739-95" :> GostOps) @@
  ("HMG-IS5" :> HmgOps) @@
  ("DOD 5220.22 M" :> DodOps) @@
  ("AR380-19" :> ArOps) @@
  ("VSITR" :> VsitrOps) @@
  ("schneier" :> SchneierOps) @@
  ("pfitzner" :> PfitznerOps) @@
  ("gutmann" :> GutmannOps)

StandardNames == DOMAIN Standards

\* Direct uses of the exported operations with a passes option, between the
\* mandatory init and end.
ApiCalls ==
  ("api:complementary(2)" :> << O("init"), OP("complementary", 2), O("end") >>) @@
  ("api:truncate(1)" :> << O("init"), OP("truncate", 1), O("end") >>) @@
  ("api:truncate(3)" :> << O("init"), OP("truncate", 3), O("end") >>) @@
  ("api:randomByte(2)" :> << O("init"), OP("randomByte", 2), O("end") >>) @@
  ("api:truncate(1),zeros" :> << O("init"), OP("truncate", 1), O("zeros"), O("end") >>)

ApiNames == DOMAIN ApiCalls

Program(s) == IF s \in StandardNames THEN Standards[s] ELSE ApiCalls[s]

PassOps == {"random", "zeros", "ones", "byte", "byteArray", "forByte", "randomByte",
            "complementary"}

\* ------------------------------------------------------------------ state
VARIABLES
  std,          \* the standard (or direct call) the hook runs
  kMaxLength,   \* buffer.kMaxLength of the platform
  orig,         \* the file's content when the hook was invoked
  fsPath,       \* the name the file exists under, NoPath once unlinked
  content,      \* the file's bytes
  times,        \* its atime/mtime: "original" or "epoch"
  fds,          \* descriptor -> "unused" | "open" | "closed"
  fileData,     \* the FileData of the running hook
  ip,           \* index of the operation in the hook's sequence
  st,           \* position inside that operation
  i,            \* loop variable of the running operation
  pos,          \* writeExtended's pos
  buf,          \* the buffer getBuffer returned
  rb,           \* randomByte's data
  tsize,        \* truncate's local fileSize
  initArg,      \* init's fileName argument
  statSize,     \* init's fileSize between stat and open
  err,          \* the rejection reason of the hook's promise
  pending,      \* fs.write calls issued and not completed
  writes,       \* <<pos, len>> of the writes of the running pass
  intended,     \* the bytes the running pass handed to fs.write, by offset
  io,           \* every fs call made, in order
  trace,        \* every operation (pass) started, in order
  events,       \* events emitted, in order
  cbs,          \* arguments the hook's callback was called with, in order
  sizes,        \* file length before truncate and after each ftruncate
  flips,        \* bytes the medium has flipped
  \* ---- tree removals with the mark standard
  reqs,         \* the removal requests made in this process
  nFiles,       \* directory -> number of files in it
  folderSet,    \* dir.ts: const folderSet = new Set()
  phase,        \* request -> "idle" | "hook" | "kids" | "resolved" | "done" | "aborted"
  hdir,         \* request -> directory whose hook runs / whose children are processed
  hstep,        \* request -> position inside dir.mark
  filesSeen,    \* request -> files.length # 0 as readdir returned it
  visits,       \* request -> directory -> results of the hook calls, in order
  fdone,        \* request -> directory -> files of it already handed to the file hook
  added,        \* request -> paths the request added to folderSet
  emitted,      \* request -> events emitted on the request's emitter, in order
  dname         \* directory -> "orig" | "renamed" | "gone": the name it exists under

cfgv == <<std, kMaxLength, orig>>
fsv == <<fsPath, content, times, fds>>
loc == <<i, pos, buf, rb, tsize, initArg, statSize>>
obs == <<pending, writes, intended, io, trace, events, cbs, sizes, flips>>
evars == <<cfgv, fsv, fileData, ip, st, loc, err, obs>>

mvars ==
  <<reqs, nFiles, folderSet, phase, hdir, hstep, filesSeen, visits, fdone, added, emitted, dname>>

vars == <<evars, mvars>>

Names == StandardNames \cup ApiNames

\* The contents the file may have when the hook is invoked: n sample bytes,
\* those at odd offsets alike and those at even offsets alike.
StartContents(n) ==
  {[k \in 1..n |-> IF k % 2 = 1 THEN a ELSE b] : a \in RandVals, b \in RandVals}

\* No tree removal is made.
MarkIdle ==
  /\ reqs = {}
  /\ nFiles = <<>>
  /\ folderSet = {}
  /\ phase = <<>> /\ hdir = <<>> /\ hstep = <<>> /\ filesSeen = <<>>
  /\ visits = <<>> /\ fdone = <<>> /\ added = <<>> /\ emitted = <<>>
  /\ dname = <<>>

EngineInit ==
  /\ MarkIdle
  /\ std \in Names
  /\ kMaxLength \in 1..MaxChunk
  /\ \E n \in 0..MaxSize : orig \in StartContents(n)
  /\ fsPath = P0
  /\ content = orig
  /\ times = "original"
  /\ fds = [d \in 1..2 |-> "unused"]
  /\ fileData = NoData
  /\ ip = 1
  /\ st = "dispatch"
  /\ i = 0 /\ pos = 0 /\ buf = <<>> /\ rb = 0 /\ tsize = 0
  /\ initArg = P0 /\ statSize = 0
  /\ err = NoErr
  /\ pending = {} /\ writes = <<>> /\ intended = <<>> /\ io = <<>>
  /\ trace = <<>> /\ events = <<>> /\ cbs = <<>> /\ sizes = <<>> /\ flips = 0

CurOp == Program(std)[ip]
Running == st = "dispatch" /\ ip <= Len(Program(std))

Call(call, fd, p, l, ok) == [call |-> call, fd |-> fd, pos |-> p, len |-> l, ok |-> ok]

\* (mutant) the rejection is swallowed and the hook carries on.
RejectedIgnored(e) == /\ st' = st
                      /\ err' = err

\* An awaited call rejected: the async function stops, its promise rejects.
Rejected(e) == /\ st' = "rejected"
               /\ err' = e

\* The fill of one pass, for the trace.
PassArg(o, iv) ==
  IF o.op = "byte" THEN o.data[1]
  ELSE IF o.op = "byteArray" THEN o.data
  ELSE IF o.op = "forByte" THEN iv
  ELSE <<>>

\* (mutant) getBuffer drawing a fresh random byte for every chunk.
PatternBuffersRedrawn(o, len, iv, rbv) == {Fill(len, v) : v \in RandVals}

\* The buffers getBuffer may return for the running pass.
PatternBuffers(o, len, iv, rbv) ==
  IF o.op = "zeros" THEN {Fill(len, 0)}
  ELSE IF o.op = "ones" THEN {Fill(len, 255)}
  ELSE IF o.op = "byte" THEN {Fill(len, o.data[1])}
  ELSE IF o.op = "byteArray" THEN {FillPattern(len, o.data)}
  ELSE IF o.op = "forByte" THEN {Fill(len, iv)}
  ELSE IF o.op = "randomByte" THEN {Fill(len, rbv)}
  ELSE [1..len -> RandVals]

\* (mutant) forByte's condition taken as i <= limit.
LoopCondInclusive(o, iv) == IF o.op = "forByte" THEN iv <= o.data[2] ELSE iv < o.passes

\* the loop condition of an overwrite operation
LoopCond(o, iv) == IF o.op = "forByte" THEN iv < o.data[2] ELSE iv < o.passes

\* the loop increment of an overwrite operation
LoopNext(o, iv) == IF o.op = "forByte" THEN iv + o.data[3] ELSE iv + 1

\* (mutant) fs.close that leaves the descriptor open.
ClosedNot(f, fd) == f

\* fs.close(fd): the descriptor is released, also when the call reports an
\* error (close(2) frees the descriptor before it returns the error).
Closed(f, fd) == [f EXCEPT ![fd] = "closed"]

\* ------------------------------------------------------------------ init
InitStat ==
  /\ \/ Running /\ CurOp.op = "init"
     \/ st = "rename_init"
  /\ LET name == IF st = "rename_init" THEN initArg ELSE P0 IN
     \E ok \in BOOLEAN :
       LET good == ok /\ fsPath = name IN
       /\ io' = Append(io, Call("stat", 0, 0, 0, good))
       /\ trace' = IF st = "dispatch" THEN Append(trace, <<"init", <<>>>>) ELSE trace
       /\ IF good
          THEN /\ statSize' = Len(content)
               /\ initArg' = name
               /\ st' = "init_open"
               /\ err' = err
          ELSE /\ Rejected("stat")
               /\ UNCHANGED <<statSize, initArg>>
  /\ UNCHANGED <<cfgv, fsv, fileData, ip, i, pos, buf, rb, tsize>>
  /\ UNCHANGED <<pending, writes, intended, events, cbs, sizes, flips, mvars>>

InitOpen ==
  /\ st = "init_open"
  /\ \E ok \in BOOLEAN :
       LET fd == IF fds[1] = "unused" THEN 1 ELSE 2 IN
       /\ io' = Append(io, Call("open", IF ok THEN fd ELSE 0, 0, 0, ok))
       /\ IF ok
          THEN /\ fds' = [fds EXCEPT ![fd] = "open"]
               /\ fileData' = NewFileData(fileData,
                                  [fd |-> fd, fileName |-> initArg, fileSize |-> statSize])
               /\ ip' = ip + 1
               /\ st' = "dispatch"
               /\ err' = err
          ELSE /\ Rejected("open")
               /\ UNCHANGED <<fds, fileData, ip>>
  /\ UNCHANGED <<cfgv, fsPath, content, times, loc>>
  /\ UNCHANGED <<pending, writes, intended, trace, events, cbs, sizes, flips, mvars>>

\* -------------------------------------------------------- overwrite passes
PassBegin ==
  /\ Running /\ CurOp.op \in PassOps
  /\ i' = IF CurOp.op = "forByte" THEN CurOp.data[1] ELSE 0
  /\ IF CurOp.op = "randomByte" THEN rb' \in RandVals ELSE rb' = rb
  /\ st' = "loop"
  /\ UNCHANGED <<cfgv, fsv, fileData, ip, pos, buf, tsize, initArg, statSize, err, obs, mvars>>

LoopHead ==
  /\ st = "loop"
  /\ IF LoopCond(CurOp, i)
     THEN /\ pos' = 0
          /\ st' = "getBuffer"
          /\ writes' = <<>>
          /\ intended' = <<>>
          /\ trace' = Append(trace, <<CurOp.op, PassArg(CurOp, i)>>)
          /\ ip' = ip
     ELSE /\ ip' = ip + 1
          /\ st' = "dispatch"
          /\ UNCHANGED <<pos, writes, intended, trace>>
  /\ UNCHANGED <<cfgv, fsv, fileData, i, buf, rb, tsize, initArg, statSize, err>>
  /\ UNCHANGED <<pending, io, events, cbs, sizes, flips, mvars>>

GetBuffer ==
  /\ st = "getBuffer" /\ CurOp.op # "complementary"
  /\ buf' \in PatternBuffers(CurOp, ChunkLen(fileData.fileSize, pos, kMaxLength), i, rb)
  /\ st' = "write"
  /\ UNCHANGED <<cfgv, fsv, fileData, ip, i, pos, rb, tsize, initArg, statSize, err, obs, mvars>>

GetBufferComplement ==
  /\ st = "getBuffer" /\ CurOp.op = "complementary"
  /\ LET len == ChunkLen(fileData.fileSize, pos, kMaxLength) IN
     \E ok \in BOOLEAN :
       /\ io' = Append(io, Call("read", fileData.fd, pos, len, ok))
       /\ IF ok
          THEN /\ buf' = Complemented(ReadAt(content, pos, len))
               /\ st' = "write"
               /\ err' = err
          ELSE /\ Rejected("read")
               /\ buf' = buf
  /\ UNCHANGED <<cfgv, fsv, fileData, ip, i, pos, rb, tsize, initArg, statSize>>
  /\ UNCHANGED <<pending, writes, intended, trace, events, cbs, sizes, flips, mvars>>

WriteIssue ==
  /\ st = "write"
  /\ pending' = pending \cup {<<pos, Len(buf)>>}
  /\ st' = "awaitWrite"
  /\ UNCHANGED <<cfgv, fsv, fileData, ip, loc, err>>
  /\ UNCHANGED <<writes, intended, io, trace, events, cbs, sizes, flips, mvars>>

\* The write at pos completed and stored `stored`; writeExtended goes on.
Written(stored) ==
  /\ io' = Append(io, Call("write", fileData.fd, pos, Len(buf), TRUE))
  /\ content' = WriteAt(content, pos, stored)
  /\ writes' = Append(writes, <<pos, Len(buf)>>)
  /\ intended' = WriteAt(intended, pos, buf)
  /\ pending' = pending \ {<<pos, Len(buf)>>}
  /\ IF LastChunk(fileData.fileSize, pos, kMaxLength)
     THEN /\ i' = LoopNext(CurOp, i)
          /\ st' = "loop"
          /\ pos' = pos
     ELSE /\ pos' = pos + kMaxLength
          /\ st' = "getBuffer"
          /\ i' = i
  /\ err' = err

WriteComplete ==
  /\ st = "awaitWrite"
  /\ \E ok \in BOOLEAN :
       IF ok
       THEN Written(buf)
       ELSE /\ io' = Append(io, Call("write", fileData.fd, pos, Len(buf), FALSE))
            /\ pending' = pending \ {<<pos, Len(buf)>>}
            /\ Rejected("write")
            /\ UNCHANGED <<content, writes, intended, i, pos>>
  /\ UNCHANGED <<cfgv, fsPath, times, fds, fileData, ip, buf, rb, tsize, initArg, statSize>>
  /\ UNCHANGED <<trace, events, cbs, sizes, flips, mvars>>

\* The medium stores one byte of the chunk with its lowest bit flipped while
\* fs.write reports success. Only passes asked to check ({ check: true }) are
\* disturbed.
FlipBit(b) == IF b % 2 = 0 THEN b + 1 ELSE b - 1

WriteCorrupt ==
  /\ st = "awaitWrite"
  /\ CurOp.check
  /\ flips < MaxFlips
  /\ \E k \in 1..Len(buf) : Written([buf EXCEPT ![k] = FlipBit(@)])
  /\ flips' = flips + 1
  /\ UNCHANGED <<cfgv, fsPath, times, fds, fileData, ip, buf, rb, tsize, initArg, statSize>>
  /\ UNCHANGED <<trace, events, cbs, sizes, mvars>>

\* ------------------------------------------------------------------ rename
RenameClose ==
  /\ Running /\ CurOp.op = "rename"
  /\ trace' = Append(trace, <<"rename", <<>>>>)
  /\ \E ok \in BOOLEAN :
       /\ io' = Append(io, Call("close", fileData.fd, 0, 0, ok))
       /\ IF ok
          THEN /\ st' = "rename_rename"
               /\ err' = err
          ELSE Rejected("close")
       /\ fds' = Closed(fds, fileData.fd)
  /\ UNCHANGED <<cfgv, fsPath, content, times, fileData, ip, loc>>
  /\ UNCHANGED <<pending, writes, intended, events, cbs, sizes, flips, mvars>>

RenameRename ==
  /\ st = "rename_rename"
  /\ \E ok \in BOOLEAN :
       LET good == ok /\ fsPath = fileData.fileName IN
       /\ io' = Append(io, Call("rename", 0, 0, 0, good))
       /\ IF good
          THEN /\ fsPath' = P1
               /\ initArg' = P1
               /\ st' = "rename_init"
               /\ err' = err
          ELSE /\ Rejected("rename")
               /\ UNCHANGED <<fsPath, initArg>>
  /\ UNCHANGED <<cfgv, content, times, fds, fileData, ip, i, pos, buf, rb, tsize, statSize>>
  /\ UNCHANGED <<pending, writes, intended, trace, events, cbs, sizes, flips, mvars>>

\* ---------------------------------------------------------------- truncate
TruncateBegin ==
  /\ Running /\ CurOp.op = "truncate"
  /\ i' = 0
  /\ tsize' = fileData.fileSize
  /\ sizes' = <<Len(content)>>
  /\ trace' = Append(trace, <<"truncate", <<>>>>)
  /\ st' = "trunc_loop"
  /\ UNCHANGED <<cfgv, fsv, fileData, ip, pos, buf, rb, initArg, statSize, err>>
  /\ UNCHANGED <<pending, writes, intended, io, events, cbs, flips, mvars>>

TruncateStep ==
  /\ st = "trunc_loop"
  /\ IF i < CurOp.passes
     THEN \E k \in 0..(RandomSteps - 1), ok \in BOOLEAN :
            LET newSize == NewSize(tsize, k) IN
            /\ io' = Append(io, Call("ftruncate", fileData.fd, 0, newSize, ok))
            /\ IF ok
               THEN /\ content' = Truncated(content, newSize)
                    /\ sizes' = Append(sizes, newSize)
                    /\ tsize' = newSize
                    /\ i' = i + 1
                    /\ UNCHANGED <<st, err>>
               ELSE /\ Rejected("ftruncate")
                    /\ UNCHANGED <<content, sizes, tsize, i>>
            /\ ip' = ip
     ELSE /\ ip' = ip + 1
          /\ st' = "dispatch"
          /\ UNCHANGED <<content, sizes, tsize, i, io, err>>
  /\ UNCHANGED <<cfgv, fsPath, times, fds, fileData, pos, buf, rb, initArg, statSize>>
  /\ UNCHANGED <<pending, writes, intended, trace, events, cbs, flips, mvars>>

\* ---------------------------------------------------------- resetTimestamps
ResetTimestamps ==
  /\ Running /\ CurOp.op = "resetTimestamps"
  /\ trace' = Append(trace, <<"resetTimestamps", <<>>>>)
  /\ \E ok \in BOOLEAN :
       /\ io' = Append(io, Call("futimes", fileData.fd, 0, 0, ok))
       /\ IF ok
          THEN /\ times' = "epoch"
               /\ ip' = ip + 1
               /\ UNCHANGED <<st, err>>
          ELSE /\ Rejected("futimes")
               /\ UNCHANGED <<times, ip>>
  /\ UNCHANGED <<cfgv, fsPath, content, fds, fileData, loc>>
  /\ UNCHANGED <<pending, writes, intended, events, cbs, sizes, flips, mvars>>

\* --------------------------------------------------------------------- end
EndClose ==
  /\ Running /\ CurOp.op = "end"
  /\ trace' = Append(trace, <<"end", <<>>>>)
  /\ \E ok \in BOOLEAN :
       /\ io' = Append(io, Call("close", fileData.fd, 0, 0, ok))
       /\ IF ok
          THEN /\ st' = "end_unlink"
               /\ err' = err
          ELSE Rejected("close")
       /\ fds' = Closed(fds, fileData.fd)
  /\ UNCHANGED <<cfgv, fsPath, content, times, fileData, ip, loc>>
  /\ UNCHANGED <<pending, writes, intended, events, cbs, sizes, flips, mvars>>

EndUnlink ==
  /\ st = "end_unlink"
  /\ \E ok \in BOOLEAN :
       LET good == ok /\ fsPath = fileData.fileName IN
       /\ io' = Append(io, Call("unlink", 0, 0, 0, good))
       /\ IF good
          THEN /\ fsPath' = NoPath
               /\ events' = Append(events, <<"removed", fileData.fileName>>)
               /\ ip' = ip + 1
               /\ st' = "dispatch"
               /\ err' = err
          ELSE /\ Rejected("unlink")
               /\ UNCHANGED <<fsPath, events, ip>>
  /\ UNCHANGED <<cfgv, content, times, fds, fileData, loc>>
  /\ UNCHANGED <<pending, writes, intended, trace, cbs, sizes, flips, mvars>>

\* -------------------------------------------------------------------- mark
FileMark ==
  /\ Running /\ CurOp.op = "mark"
  /\ trace' = Append(trace, <<"mark", <<>>>>)
  /\ events' = Append(events, <<"mark", P0>>)
  /\ ip' = ip + 1
  /\ UNCHANGED <<cfgv, fsv, fileData, st, loc, err>>
  /\ UNCHANGED <<pending, writes, intended, io, cbs, sizes, flips, mvars>>

\* ------------------------------------ remove().then(_ => cb(null)).catch(cb)
Resolve ==
  /\ st = "dispatch" /\ ip > Len(Program(std))
  /\ cbs' = Append(cbs, NoErr)
  /\ \E throws \in BOOLEAN :
       IF throws THEN Rejected("callback") ELSE st' = "done" /\ err' = err
  /\ UNCHANGED <<cfgv, fsv, fileData, ip, loc>>
  /\ UNCHANGED <<pending, writes, intended, io, trace, events, sizes, flips, mvars>>

Reject ==
  /\ st = "rejected"
  /\ cbs' = Append(cbs, err)
  /\ st' = "done"
  /\ UNCHANGED <<cfgv, fsv, fileData, ip, loc, err>>
  /\ UNCHANGED <<pending, writes, intended, io, trace, events, sizes, flips, mvars>>


\* ================================================================ mark tree
\* The tree removed: D holds nFiles[D] files and the directory E, E holds
\* nFiles[E] files. The mark standard removes nothing, so neither changes.
D == "/t"
E == "/t/e"
Dirs == {D, E}

NonEmpty(d) == d = D \/ nFiles[d] > 0

\* No file hook runs.
EngineIdle ==
  /\ std = "mark" /\ kMaxLength = 1 /\ orig = <<>>
  /\ fsPath = NoPath /\ content = <<>> /\ times = "original"
  /\ fds = [d \in 1..2 |-> "unused"]
  /\ fileData = NoData
  /\ ip = 1 /\ st = "done"
  /\ i = 0 /\ pos = 0 /\ buf = <<>> /\ rb = 0 /\ tsize = 0
  /\ initArg = P0 /\ statSize = 0
  /\ err = NoErr
  /\ pending = {} /\ writes = <<>> /\ intended = <<>> /\ io = <<>>
  /\ trace = <<>> /\ events = <<>> /\ cbs = <<>> /\ sizes = <<>> /\ flips = 0

MarkInit(rs) ==
  /\ EngineIdle
  /\ reqs = rs
  /\ nFiles \in [Dirs -> 0..MaxFiles]
  /\ folderSet = {}
  /\ phase = [r \in rs |-> "idle"]
  /\ hdir = [r \in rs |-> D]
  /\ hstep = [r \in rs |-> "none"]
  /\ filesSeen = [r \in rs |-> FALSE]
  /\ visits = [r \in rs |-> [d \in Dirs |-> <<>>]]
  /\ fdone = [r \in rs |-> [d \in Dirs |-> 0]]
  /\ added = [r \in rs |-> {}]
  /\ emitted = [r \in rs |-> <<>>]
  /\ dname = [d \in Dirs |-> "orig"]

\* ------------------------------------------------ dir.mark, folderSet
\* (mutant) the second visit forgets folderSet.delete(folderName).
FolderSetAfterKeep(set, folderName, hasFiles) ==
  IF hasFiles THEN set \cup {folderName} ELSE set

\* folderSet after the synchronous part of dir.mark on folderName.
FolderSetAfter(set, folderName, hasFiles) ==
  IF hasFiles
  THEN IF folderName \in set THEN set \ {folderName} ELSE set \cup {folderName}
  ELSE set

\* (mutant) dir.mark without its else branch for an empty directory.
MarkEmitsTracked(set, folderName, hasFiles) == folderName \in set

\* TRUE when dir.mark emits 'mark' (and resolves), FALSE when it goes on to
\* the rmdir that throws.
MarkEmits(set, folderName, hasFiles) ==
  IF hasFiles THEN folderName \in set ELSE TRUE

\* The hook's callback: the traversal takes the result of the call on d.
\*   no error                        -> the directory is dealt with
\*   ENOTEMPTY on the first attempt   -> process the children, then call again
\*   any other error                 -> the removal fails with it
Returned(r, d, res) ==
  /\ visits' = [visits EXCEPT ![r][d] = Append(@, res)]
  /\ hstep' = [hstep EXCEPT ![r] = "none"]
  /\ IF res = "ok"
     THEN IF d = D
          THEN /\ phase' = [phase EXCEPT ![r] = "resolved"]
               /\ hdir' = hdir
          ELSE /\ phase' = [phase EXCEPT ![r] = "kids"]
               /\ hdir' = [hdir EXCEPT ![r] = D]
     ELSE IF res = "ENOTEMPTY" /\ visits[r][d] = <<>>
          THEN /\ phase' = [phase EXCEPT ![r] = "kids"]
               /\ hdir' = hdir
          ELSE /\ phase' = [phase EXCEPT ![r] = "aborted"]
               /\ hdir' = hdir

\* remove(D, { standard: mark }): the traversal calls the rmdir hook on D.
Start(r) ==
  /\ phase[r] = "idle"
  /\ phase' = [phase EXCEPT ![r] = "hook"]
  /\ hdir' = [hdir EXCEPT ![r] = D]
  /\ hstep' = [hstep EXCEPT ![r] = "readdir"]
  /\ UNCHANGED <<dname, reqs, nFiles, folderSet, filesSeen, visits, fdone, added, emitted, evars>>

\* const files = await fs.readdir(folderName)
MarkReaddir(r) ==
  /\ phase[r] = "hook" /\ hstep[r] = "readdir"
  /\ \E ok \in BOOLEAN :
       IF ok
       THEN /\ filesSeen' = [filesSeen EXCEPT ![r] = NonEmpty(hdir[r])]
            /\ hstep' = [hstep EXCEPT ![r] = "branch"]
            /\ UNCHANGED <<phase, hdir, visits>>
       ELSE /\ Returned(r, hdir[r], "EACCES")
            /\ filesSeen' = filesSeen
  /\ UNCHANGED <<dname, reqs, nFiles, folderSet, fdone, added, emitted, evars>>

\* if (files.length) { if (folderSet.has(..)) {..} else {..} } else {..}
MarkBranch(r) ==
  /\ phase[r] = "hook" /\ hstep[r] = "branch"
  /\ LET d == hdir[r] IN
     /\ folderSet' = FolderSetAfter(folderSet, d, filesSeen[r])
     /\ added' = [added EXCEPT ![r] = @ \cup (folderSet' \ folderSet)]
     /\ IF MarkEmits(folderSet, d, filesSeen[r])
        THEN /\ emitted' = [emitted EXCEPT ![r] = Append(@, <<"mark", d>>)]
             /\ Returned(r, d, "ok")
        ELSE /\ hstep' = [hstep EXCEPT ![r] = "rmdir"]
             /\ UNCHANGED <<emitted, phase, hdir, visits>>
  /\ UNCHANGED <<dname, reqs, nFiles, filesSeen, fdone, evars>>

\* await fs.rmdir(folderName) on a directory that has entries: throws
MarkRmdir(r) ==
  /\ phase[r] = "hook" /\ hstep[r] = "rmdir"
  /\ Returned(r, hdir[r], "ENOTEMPTY")
  /\ UNCHANGED <<dname, reqs, nFiles, folderSet, filesSeen, fdone, added, emitted, evars>>

\* The traversal hands a file of the directory to the unlink hook:
\* standards.mark.unlink -> file.mark emits 'mark'.
KidFile(r) ==
  /\ phase[r] = "kids"
  /\ fdone[r][hdir[r]] < nFiles[hdir[r]]
  /\ fdone' = [fdone EXCEPT ![r][hdir[r]] = @ + 1]
  /\ emitted' = [emitted EXCEPT ![r] = Append(@, <<"mark", <<hdir[r], fdone[r][hdir[r]] + 1>>>>)]
  /\ UNCHANGED <<dname, reqs, nFiles, folderSet, phase, hdir, hstep, filesSeen, visits, added, evars>>

\* The traversal reaches the subdirectory and calls the rmdir hook on it.
KidDir(r) ==
  /\ phase[r] = "kids" /\ hdir[r] = D
  /\ visits[r][E] = <<>>
  /\ phase' = [phase EXCEPT ![r] = "hook"]
  /\ hdir' = [hdir EXCEPT ![r] = E]
  /\ hstep' = [hstep EXCEPT ![r] = "readdir"]
  /\ UNCHANGED <<dname, reqs, nFiles, folderSet, filesSeen, visits, fdone, added, emitted, evars>>

\* TRUE when the traversal has dealt with every child of d.
KidsDone(r, d) ==
  /\ fdone[r][d] = nFiles[d]
  /\ d = D => (visits[r][E] # <<>> /\ visits[r][E][Len(visits[r][E])] = "ok")

\* Every child has been dealt with: the traversal calls the hook again.
Revisit(r) ==
  /\ phase[r] = "kids"
  /\ KidsDone(r, hdir[r])
  /\ phase' = [phase EXCEPT ![r] = "hook"]
  /\ hstep' = [hstep EXCEPT ![r] = "readdir"]
  /\ UNCHANGED <<dname, reqs, nFiles, folderSet, hdir, filesSeen, visits, fdone, added, emitted, evars>>

\* remove_: fs.remove resolved; eventEmitter.emit('done', path)
RemoveDone(r) ==
  /\ phase[r] = "resolved"
  /\ emitted' = [emitted EXCEPT ![r] = Append(@, <<"done", D>>)]
  /\ phase' = [phase EXCEPT ![r] = "done"]
  /\ UNCHANGED <<dname, reqs, nFiles, folderSet, hdir, hstep, filesSeen, visits, fdone, added, evars>>

\* ============================================================== secure tree
\* remove(D, { standard: secure }): the rmdir hook is dir.rename + dir.end,
\* the unlink hook removes the file. fdone counts the files removed.

\* TRUE when directory d holds an entry.
HasEntries(r, d) == fdone[r][d] < nFiles[d] \/ (d = D /\ dname[E] # "gone")

\* (mutant) dir.rename that renames whatever readdir returned.
RenamesNowAlways(hasFiles) == TRUE

\* dir.rename: TRUE in the else branch (rename), FALSE when files.length
\* sends it to the rmdir that throws.
RenamesNow(hasFiles) == ~hasFiles

\* (mutant) the hook keeps the path it was called with.
RenameResultOld == "orig"

\* path = await dir.rename(path): the name dir.end is called with.
RenameResult == "renamed"

\* dir.rename: const files = await fs.readdir(folderName)
DirRenameReaddir(r) ==
  /\ phase[r] = "hook" /\ hstep[r] = "readdir"
  /\ \E ok \in BOOLEAN :
       IF ok /\ dname[hdir[r]] = "orig"
       THEN /\ filesSeen' = [filesSeen EXCEPT ![r] = HasEntries(r, hdir[r])]
            /\ hstep' = [hstep EXCEPT ![r] = "branch"]
            /\ UNCHANGED <<phase, hdir, visits>>
       ELSE /\ Returned(r, hdir[r], IF dname[hdir[r]] = "orig" THEN "EACCES" ELSE "ENOENT")
            /\ filesSeen' = filesSeen
  /\ UNCHANGED <<dname, reqs, nFiles, folderSet, fdone, added, emitted, evars>>

\* dir.rename, if (files.length): await fs.rmdir(folderName), will throw
DirRenameThrow(r) ==
  /\ phase[r] = "hook" /\ hstep[r] = "branch"
  /\ ~RenamesNow(filesSeen[r])
  /\ Returned(r, hdir[r], "ENOTEMPTY")
  /\ UNCHANGED <<dname, reqs, nFiles, folderSet, filesSeen, fdone, added, emitted, evars>>

\* dir.rename, else: await fs.rename(folderName, newPath); return newPath
DirRename(r) ==
  /\ phase[r] = "hook" /\ hstep[r] = "branch"
  /\ RenamesNow(filesSeen[r])
  /\ \E ok \in BOOLEAN :
       IF ok
       THEN /\ dname' = [dname EXCEPT ![hdir[r]] = "renamed"]
            /\ hstep' = [hstep EXCEPT ![r] = "end"]
            /\ UNCHANGED <<phase, hdir, visits>>
       ELSE /\ Returned(r, hdir[r], "EACCES")
            /\ dname' = dname
  /\ UNCHANGED <<reqs, nFiles, folderSet, filesSeen, fdone, added, emitted, evars>>

\* dir.end(path): await fs.rmdir(path); emit removed
DirEnd(r) ==
  /\ phase[r] = "hook" /\ hstep[r] = "end"
  /\ LET d == hdir[r] IN
     \E ok \in BOOLEAN :
       IF dname[d] # RenameResult
       THEN Returned(r, d, "ENOENT") /\ UNCHANGED <<dname, emitted>>
       ELSE IF HasEntries(r, d)
       THEN Returned(r, d, "ENOTEMPTY") /\ UNCHANGED <<dname, emitted>>
       ELSE IF ok
       THEN /\ dname' = [dname EXCEPT ![d] = "gone"]
            /\ emitted' = [emitted EXCEPT ![r] = Append(@, <<"removed", <<d, RenameResult>>>>)]
            /\ Returned(r, d, "ok")
       ELSE Returned(r, d, "EACCES") /\ UNCHANGED <<dname, emitted>>
  /\ UNCHANGED <<reqs, nFiles, folderSet, filesSeen, fdone, added, evars>>

\* The traversal hands a file of the directory to the unlink hook:
\* standards.secure.unlink overwrites, renames and unlinks it.
SecureUnlink(r) ==
  /\ phase[r] = "kids"
  /\ fdone[r][hdir[r]] < nFiles[hdir[r]]
  /\ fdone' = [fdone EXCEPT ![r][hdir[r]] = @ + 1]
  /\ emitted' = [emitted EXCEPT ![r] = Append(@, <<"removed", <<hdir[r], "file", fdone[r][hdir[r]] + 1>>>>)]
  /\ UNCHANGED <<dname, reqs, nFiles, folderSet, phase, hdir, hstep, filesSeen, visits, added, evars>>

\* ----------------------------------------------------------- specification
Init == EngineInit

Next ==
  \/ InitStat \/ InitOpen
  \/ PassBegin \/ LoopHead \/ GetBuffer \/ GetBufferComplement
  \/ WriteIssue \/ WriteComplete
  \/ RenameClose \/ RenameRename
  \/ TruncateBegin \/ TruncateStep
  \/ ResetTimestamps
  \/ EndClose \/ EndUnlink
  \/ FileMark
  \/ Resolve \/ Reject

Spec == Init /\ [][Next]_vars

FaultNext == Next \/ WriteCorrupt

SpecFault == Init /\ [][FaultNext]_vars

MarkNext ==
  \E r \in reqs :
    \/ Start(r)
    \/ MarkReaddir(r) \/ MarkBranch(r) \/ MarkRmdir(r)
    \/ KidFile(r) \/ KidDir(r) \/ Revisit(r)
    \/ RemoveDone(r)

SoloInit == MarkInit({1})
SpecSolo == SoloInit /\ [][MarkNext]_vars

PairInit == MarkInit({1, 2})
SpecMark == PairInit /\ [][MarkNext]_vars

SecureNext ==
  \E r \in reqs :
    \/ Start(r)
    \/ DirRenameReaddir(r) \/ DirRenameThrow(r) \/ DirRename(r) \/ DirEnd(r)
    \/ SecureUnlink(r) \/ KidDir(r) \/ Revisit(r)
    \/ RemoveDone(r)

SpecDir == SoloInit /\ [][SecureNext]_vars

\* ================================================================== claims
\* A pass of the running overwrite operation has just completed.
PassJustDone ==
  /\ st = "loop"
  /\ i # (IF CurOp.op = "forByte" THEN CurOp.data[1] ELSE 0)

\* The byte offsets the writes of ws address.
Offsets(ws) == UNION {ws[k][1]..(ws[k][1] + ws[k][2] - 1) : k \in 1..Len(ws)}

\* C1: the writes of one writeExtended pass started at 0 are contiguous and
\* non-overlapping, each at most kMaxLength long, none reaches an offset
\* >= size, and once the pass is complete they address every offset in
\* [0, size).
C1_ChunkCoverage ==
  /\ \A k \in 1..Len(writes) :
       /\ writes[k][2] >= 0 /\ writes[k][2] <= kMaxLength
       /\ writes[k][1] = (IF k = 1 THEN 0 ELSE writes[k - 1][1] + writes[k - 1][2])
       /\ writes[k][1] + writes[k][2] <= fileData.fileSize
       /\ \A j \in 1..(k - 1) :
            (writes[j][1]..(writes[j][1] + writes[j][2] - 1))
              \cap (writes[k][1]..(writes[k][1] + writes[k][2] - 1)) = {}
  /\ PassJustDone =>
       /\ writes # <<>>
       /\ Offsets(writes) = 0..(fileData.fileSize - 1)

\* A completed pass over a file of kMaxLength + 1 bytes or more, in 3 chunks.
C1_Witness ==
  /\ PassJustDone
  /\ fileData.fileSize > kMaxLength
  /\ Len(writes) >= 3
  /\ Offsets(writes) = 0..(fileData.fileSize - 1)

\* C9: in a complementary pass each chunk is read at its own offset right
\* before that offset is written, the buffer written is the bitwise
\* complement (255 - b, a byte) of what the file holds there; after one pass
\* every byte of the file is the complement of the original, after two passes
\* the file holds the original content again.
C9_ComplementSelfInverse ==
  /\ (st \in {"write", "awaitWrite"} /\ CurOp.op = "complementary") =>
       /\ io[Len(io)] = Call("read", fileData.fd, pos, Len(buf), TRUE)
       /\ \A k \in 1..Len(buf) :
            /\ buf[k] \in 0..255
            /\ buf[k] = 255 - content[pos + k]
  /\ (std = "api:complementary(2)" /\ st = "loop") =>
       /\ Len(content) = Len(orig)
       /\ i = 1 => \A k \in 1..Len(orig) : content[k] = 255 - orig[k]
       /\ i = 2 => content = orig

\* Two complementary passes done on a file of three chunks.
C9_Witness ==
  /\ std = "api:complementary(2)" /\ st = "loop" /\ i = 2
  /\ Len(orig) = 3 /\ kMaxLength = 1
  /\ orig[1] # orig[2]
  /\ content = orig

C5_FailureAborts ==
  \A k \in 1..Len(io) :
    ~io[k].ok =>
      /\ k = Len(io)
      /\ st \in {"rejected", "done"}
      /\ err = io[k].call
      /\ fsPath # NoPath
      /\ \A e \in 1..Len(events) : events[e][1] # "removed"
      /\ pending = {}
      /\ st = "rejected" => cbs = <<>>
      /\ st = "done" => cbs = <<io[k].call>>

\* A write failed after the first chunk of a pass: the file is partly
\* overwritten, still there, and the callback got the write error.
C5_Witness ==
  /\ st = "done" /\ cbs = <<"write">>
  /\ io # <<>> /\ ~io[Len(io)].ok /\ io[Len(io)].call = "write"
  /\ pos > 0
  /\ content # orig
  /\ fsPath = P0

\* TRUE when the hook of a standard has called back with null.
Succeeded == std \in StandardNames /\ cbs # <<>> /\ cbs[1] = NoErr

MetaOps == {"rename", "truncate", "resetTimestamps"}

\* C6 as claimed: every standard, mark included, ends in close+unlink, so
\* the file is gone once its hook has called back with null; only secure
\* renames, truncates or resets timestamps.
C6_EveryStandardUnlinks ==
  /\ Succeeded =>
       /\ trace[Len(trace)][1] = "end"
       /\ fsPath = NoPath
  /\ std \in StandardNames =>
       \A k \in 1..Len(trace) : trace[k][1] \in MetaOps => std = "secure"

\* C6 amended: every standard but mark ends in close+unlink (the last call is
\* a successful unlink after the close of the descriptor), and the file is
\* gone once its hook has called back with null; the mark hook makes no fs
\* call, emits one mark event and leaves the file in place; zeros has then
\* written 0x00 over the whole file; only secure renames, truncates or
\* resets timestamps.
C6_AllButMarkUnlink ==
  /\ (Succeeded /\ std # "mark") =>
       /\ trace[Len(trace)][1] = "end"
       /\ Len(io) >= 2
       /\ io[Len(io)].call = "unlink" /\ io[Len(io)].ok
       /\ io[Len(io) - 1].call = "close" /\ io[Len(io) - 1].ok
       /\ fsPath = NoPath
       /\ events = <<<<"removed", fileData.fileName>>>>
  /\ (Succeeded /\ std = "mark") =>
       /\ trace = <<<<"mark", <<>>>>>>
       /\ io = <<>>
       /\ events = <<<<"mark", P0>>>>
       /\ fsPath = P0 /\ content = orig
  /\ (Succeeded /\ std = "zeros") =>
       /\ intended = Fill(Len(orig), 0)
       /\ content = Fill(Len(orig), 0)
  /\ std \in StandardNames =>
       \A k \in 1..Len(trace) : trace[k][1] \in MetaOps => std = "secure"

\* zeros has called back with null on the largest file.
C6_Witness ==
  /\ std = "zeros" /\ Succeeded
  /\ Len(orig) = MaxSize
  /\ content = Fill(MaxSize, 0)
  /\ fsPath = NoPath

\* The table of per-standard sequences: <<operation, passes, argument>>.
T(op, n, arg) == <<op, n, arg>>
Table ==
  ("mark" :> << T("mark", 1, <<>>) >>) @@
  ("randomData" :> << T("random", 1, <<>>) >>) @@
  ("randomByte" :> << T("randomByte", 1, <<>>) >>) @@
  ("NZSIT-402" :> << T("randomByte", 1, <<>>) >>) @@
  ("zeros" :> << T("zeros", 1, <<>>) >>) @@
  ("ones" :> << T("ones", 1, <<>>) >>) @@
  ("secure" :> << T("random", 1, <<>>), T("rename", 1, <<>>), T("truncate", 1, <<>>),
                  T("resetTimestamps", 1, <<>>) >>) @@
  ("GOST_R50739-95" :> << T("zeros", 1, <<>>), T("random", 1, <<>>) >>) @@
  ("HMG-IS5" :> << T("zeros", 1, <<>>), T("ones", 1, <<>>), T("random", 1, <<>>) >>) @@
  ("DOD 5220.22 M" :> << T("zeros", 1, <<>>), T("ones", 1, <<>>), T("random", 1, <<>>) >>) @@
  ("AR380-19" :> << T("random", 1, <<>>), T("randomByte", 1, <<>>),
                    T("complementary", 1, <<>>) >>) @@
  ("VSITR" :> << T("zeros", 1, <<>>), T("ones", 1, <<>>), T("zeros", 1, <<>>),
                 T("ones", 1, <<>>), T("zeros", 1, <<>>), T("ones", 1, <<>>),
                 T("random", 1, <<>>) >>) @@
  ("schneier" :> << T("zeros", 1, <<>>), T("ones", 1, <<>>), T("random", 5, <<>>) >>) @@
  ("pfitzner" :> << T("random", 33, <<>>) >>) @@
  ("gutmann" :> << T("random", 4, <<>>), T("byte", 1, 85), T("byte", 1, 170),
                   T("byteArray", 1, <<146, 73, 36>>), T("byteArray", 1, <<73, 36, 146>>),
                   T("byteArray", 1, <<36, 146, 73>>),
                   T("counter", 1, <<0, 255, 17>>),
                   T("byteArray", 1, <<146, 73, 36>>), T("byteArray", 1, <<73, 36, 146>>),
                   T("byteArray", 1, <<36, 146, 73>>), T("byteArray", 1, <<109, 182, 219>>),
                   T("byteArray", 1, <<182, 219, 109>>), T("byteArray", 1, <<219, 109, 182>>),
                   T("random", 4, <<>>) >>)

\* counter(start, while < limit, step): one pass per value.
RECURSIVE CounterPasses(_, _, _)
CounterPasses(v, limit, step) ==
  IF v < limit THEN <<<<"forByte", v>>>> \o CounterPasses(v + step, limit, step) ELSE <<>>

\* n passes of op
Repeated(op, n, arg) == [k \in 1..n |-> <<op, arg>>]

RECURSIVE Expand(_)
Expand(row) ==
  IF row = <<>> THEN <<>>
  ELSE (IF row[1][1] = "counter"
        THEN CounterPasses(row[1][3][1], row[1][3][2], row[1][3][3])
        ELSE Repeated(row[1][1], row[1][2], row[1][3])) \o Expand(Tail(row))

\* The operations a row stands for: mark is a no-op on the file, every other
\* row runs between init and the terminal close+unlink.
Expected(s) ==
  IF s = "mark" THEN Expand(Table[s])
  ELSE <<<<"init", <<>>>>>> \o Expand(Table[s]) \o <<<<"end", <<>>>>>>

IsPrefix(a, b) == Len(a) <= Len(b) /\ a = SubSeq(b, 1, Len(a))

\* C7: the operations a standard's hook performs are, in order and pass for
\* pass, those of its row of the table (all of them once it has called back
\* with null), and a write is in flight only while the hook awaits it: never
\* two at once, never one while anything else is started.
C7_TraceMatchesTable ==
  /\ std \in StandardNames =>
       /\ IsPrefix(trace, Expected(std))
       /\ Succeeded => trace = Expected(std)
  /\ Cardinality(pending) <= 1
  /\ pending # {} => st = "awaitWrite"

\* gutmann has run all its passes on a file of several chunks.
C7_Witness ==
  /\ std = "gutmann" /\ Succeeded
  /\ Len(trace) = 36
  /\ Len(orig) = MaxSize /\ kMaxLength = 1

\* A pass asked to check has just completed and the hook goes on.
VerifyPassDone == st = "loop" /\ PassJustDone /\ CurOp.check

\* C8: a pass asked to check reads back what it wrote, and a byte that does
\* not hold what the pass wrote fails the sequence: the hook does not go on
\* past that pass, does not call back with null and the file is not unlinked.
C8_VerifyCatches ==
  /\ VerifyPassDone =>
       /\ fileData.fileSize > 0 =>
            \E k \in 1..Len(io) : io[k].call = "read" /\ io[k].fd = fileData.fd
       /\ SubSeq(content, 1, Len(intended)) = intended
  /\ flips > 0 =>
       /\ fsPath # NoPath
       /\ \A k \in 1..Len(cbs) : cbs[k] # NoErr

\* The mark events request r has emitted for directory d.
MarkCount(r, d) ==
  Cardinality({k \in 1..Len(emitted[r]) : emitted[r][k] = <<"mark", d>>})

\* C2: in one tree removal with the mark standard, the hook fails on the
\* first visit of a non-empty directory (the path is then in folderSet and no
\* mark event has been emitted for it) and succeeds on the second visit, with
\* exactly one mark event for the path over the two visits; once the removal
\* has resolved folderSet is empty.
C2_MarkTwoVisits ==
  /\ \A r \in reqs, d \in Dirs :
       NonEmpty(d) =>
         LET v == visits[r][d] IN
         /\ Len(v) <= 2
         /\ MarkCount(r, d) <= 1
         /\ Len(v) >= 1 => v[1] # "ok"
         /\ (Len(v) = 1 /\ v[1] = "ENOTEMPTY") =>
              /\ d \in folderSet
              /\ MarkCount(r, d) = 0
         /\ (Len(v) = 2 /\ v[2] # "EACCES") =>
              /\ v = <<"ENOTEMPTY", "ok">>
              /\ MarkCount(r, d) = 1
              /\ d \notin folderSet
  /\ \A r \in reqs : phase[r] \in {"resolved", "done"} => folderSet = {}

\* The removal of a directory with two files and a non-empty subdirectory is
\* done: both directories failed once and then succeeded.
C2_Witness ==
  /\ reqs = {1} /\ phase[1] = "done"
  /\ nFiles[D] = 2 /\ nFiles[E] > 0
  /\ visits[1][D] = <<"ENOTEMPTY", "ok">>
  /\ visits[1][E] = <<"ENOTEMPTY", "ok">>
  /\ MarkCount(1, D) = 1 /\ MarkCount(1, E) = 1
  /\ folderSet = {}

\* C3: once a removal request has finished, with or without an error,
\* folderSet holds no path that request added.
C3_NoStaleEntries ==
  \A r \in reqs :
    phase[r] \in {"done", "aborted"} => added[r] \cap folderSet = {}

\* No fs call of a directory hook has failed.
NoIoError ==
  \A r \in reqs, d \in Dirs :
    \A k \in 1..Len(visits[r][d]) : visits[r][d][k] # "EACCES"

\* C4: with two removals in flight on the same tree and no fs error, each
\* removal fails on its own first visit of a non-empty directory and succeeds
\* on its own second visit with exactly one mark event; folderSet is empty
\* once both are done.
C4_ConcurrentSafe ==
  NoIoError =>
    /\ \A r \in reqs, d \in Dirs :
         NonEmpty(d) =>
           LET v == visits[r][d] IN
           /\ Len(v) >= 1 => v[1] = "ENOTEMPTY"
           /\ Len(v) >= 2 => (v[2] = "ok" /\ MarkCount(r, d) = 1)
    /\ (\A r \in reqs : phase[r] \in {"done", "aborted"}) => folderSet = {}

\* C11: between init and end the fileSize of the session's FileData equals
\* the length of the open file (after init, after rename, after truncate),
\* and an overwrite pass run after a truncate leaves the file at the
\* truncated length.
C11_SizeMatchesFile ==
  /\ (fileData # NoData /\ fds[fileData.fd] = "open") =>
       fileData.fileSize = Len(content)
  /\ (sizes # <<>> /\ st = "loop" /\ PassJustDone) =>
       Len(content) = sizes[Len(sizes)]

\* The descriptors that are open.
OpenFds == {d \in DOMAIN fds : fds[d] = "open"}

\* The hook failed inside rename (close, fs.rename, or init of the new path).
RenameFailed ==
  /\ st \in {"rejected", "done"} /\ err # NoErr
  /\ ip <= Len(Program(std)) /\ CurOp.op = "rename"

\* C12: rename closes the old descriptor before init opens the new one, so
\* at most one descriptor is open at any time; when rename fails at the
\* close, the fs.rename or the stat/open of the new path, no descriptor is
\* open and the file exists under exactly one of the two names: the old one
\* when close or fs.rename failed, the new one when stat or open failed.
C12_RenameDescriptors ==
  /\ Cardinality(OpenFds) <= 1
  /\ fds[2] # "unused" => fds[1] = "closed"
  /\ st \in {"rename_rename", "rename_init", "init_open"} /\ CurOp.op = "rename" =>
       OpenFds = {}
  /\ RenameFailed =>
       /\ OpenFds = {}
       /\ err \in {"close", "rename", "stat", "open"}
       /\ fsPath \in {P0, P1}
       /\ err \in {"close", "rename"} => fsPath = P0
       /\ err \in {"stat", "open"} => fsPath = P1

\* rename failed at the open of the new path: the file carries the new name
\* and no descriptor is open.
C12_Witness ==
  /\ RenameFailed /\ st = "done" /\ err = "open"
  /\ fsPath = P1
  /\ fds = <<"closed", "unused">>

\* The secure hook has called back with null.
SecureDone == std = "secure" /\ Succeeded

\* The fs calls of a successful secure hook, in order: stat and open of the
\* original path, the writes of one pass over the original size, close,
\* rename, stat and open of the new path, ftruncate, futimes, close and
\* unlink on the new descriptor and path.
SecureCalls ==
  LET w == Len(io) - 10
      S == Len(orig) IN
  /\ w >= 1
  /\ \A k \in 1..Len(io) : io[k].ok
  /\ io[1].call = "stat"
  /\ io[2] = Call("open", 1, 0, 0, TRUE)
  /\ \A k \in 3..(2 + w) : io[k].call = "write" /\ io[k].fd = 1
  /\ Len(writes) = w
  /\ \A k \in 1..w : <<io[2 + k].pos, io[2 + k].len>> = writes[k]
  /\ Offsets(writes) = 0..(S - 1)
  /\ \A k \in 1..S : intended[k] \in RandVals
  /\ io[3 + w] = Call("close", 1, 0, 0, TRUE)
  /\ io[4 + w].call = "rename"
  /\ io[5 + w].call = "stat"
  /\ io[6 + w] = Call("open", 2, 0, 0, TRUE)
  /\ io[7 + w] = Call("ftruncate", 2, 0, sizes[2], TRUE)
  /\ io[8 + w] = Call("futimes", 2, 0, 0, TRUE)
  /\ io[9 + w] = Call("close", 2, 0, 0, TRUE)
  /\ io[10 + w].call = "unlink"
  /\ trace = << <<"init", <<>>>>, <<"random", <<>>>>, <<"rename", <<>>>>,
               <<"truncate", <<>>>>, <<"resetTimestamps", <<>>>>, <<"end", <<>>>> >>
  /\ sizes[1] = S /\ Len(sizes) = 2
  /\ fileData.fileName = P1 /\ P1 # P0
  /\ times = "epoch"
  /\ fsPath = NoPath
  /\ events = << <<"removed", P1>> >>

C14_RemovedAfterInit ==
  \A k \in 1..Len(events) :
    events[k][1] = "removed" =>
      /\ \E j \in 1..(k - 1) :
           events[j][1] \in {"init", "mark"} /\ events[j][2] = events[k][2]
      /\ fsPath = NoPath
      /\ \E c \in 1..Len(io) :
           /\ io[c].call = "close" /\ io[c].ok
           /\ c < Len(io)
           /\ io[c + 1].call = "unlink" /\ io[c + 1].ok

\* The positions of the fs.write calls made so far.
WriteCalls == {k \in 1..Len(io) : io[k].call = "write"}

\* The overwrite passes started so far.
PassesStarted == {k \in 1..Len(trace) : trace[k][1] \in PassOps}

\* C15 as claimed: on a file of size 0 no pass issues a write call, and the
\* sequence of every standard with an end still runs to its close+unlink.
C15_NoWriteOnEmpty ==
  Len(orig) = 0 =>
    /\ WriteCalls = {}
    /\ pending = {}
    /\ (Succeeded /\ std # "mark") => fsPath = NoPath

\* C15 amended: on a file of size 0 every pass issues exactly one write
\* call, of length 0 at position 0, which leaves the file empty, and then
\* completes; the sequence of every standard with an end still runs to its
\* close+unlink.
C15_EmptyFileOneWrite ==
  Len(orig) = 0 =>
    /\ \A k \in WriteCalls : io[k].pos = 0 /\ io[k].len = 0
    /\ content = <<>>
    /\ Cardinality(WriteCalls) <= Cardinality(PassesStarted)
    /\ Cardinality(WriteCalls) >= Cardinality(PassesStarted) - 1
    /\ (st = "loop" /\ PassJustDone) => Cardinality(WriteCalls) = Cardinality(PassesStarted)
    /\ (Succeeded /\ std # "mark") =>
         /\ Cardinality(WriteCalls) = Cardinality(PassesStarted)
         /\ Cardinality(PassesStarted) >= 1
         /\ trace[Len(trace)][1] = "end"
         /\ fsPath = NoPath

\* gutmann has removed an empty file: one zero-length write for each of its
\* 34 passes.
C15_Witness ==
  /\ std = "gutmann" /\ Succeeded
  /\ Len(orig) = 0
  /\ Cardinality(WriteCalls) = 34
  /\ fsPath = NoPath

\* C16: randomByte fills every chunk of every pass with the one byte drawn
\* before its first pass: each buffer handed to fs.write holds only that
\* byte, the part of the file the first pass has covered holds it, and from
\* the end of the first pass on (all through the later passes) every byte
\* in [0, size) holds it.
C16_RandomByteConstant ==
  /\ (st \in {"loop", "getBuffer", "write", "awaitWrite"} /\ CurOp.op = "randomByte") =>
       /\ rb \in 0..255
       /\ (st # "loop" \/ i >= 1) => \A k \in 1..Len(intended) : intended[k] = rb
       /\ st \in {"write", "awaitWrite"} => buf = Fill(Len(buf), rb)
       /\ (i = 0 /\ st # "loop") => SubSeq(content, 1, pos) = Fill(pos, rb)
       /\ i >= 1 => content = Fill(fileData.fileSize, rb)
  /\ (std = "api:randomByte(2)" /\ ip > 2 /\ st # "rejected") =>
       content = Fill(Len(orig), rb)

\* The second pass of randomByte(2) is under way on a file of three chunks.
C16_Witness ==
  /\ std = "api:randomByte(2)" /\ st = "getBuffer" /\ i = 1 /\ pos > 0
  /\ Len(orig) = MaxSize /\ kMaxLength = 1
  /\ content = Fill(MaxSize, rb)
  /\ content # orig

\* The fills of the forByte passes started so far, in order.
ForBytePasses == SelectSeq(trace, LAMBDA e : e[1] = "forByte")

\* The index of forByte in gutmann's sequence.
GutmannForByte == CHOOSE k \in 1..Len(GutmannOps) : GutmannOps[k].op = "forByte"

\* C19: forByte makes one full-file pass per counter value for which the
\* condition holds, in counter order, and stops at the first value for which
\* it fails: with gutmann's parameters the k-th pass writes 0x11 * (k - 1),
\* a byte below 0xFF, over the whole file, and the operation ends after
\* exactly 15 passes (0x00 .. 0xEE) with the counter at 0xFF.
C19_ForBytePasses ==
  std = "gutmann" =>
    /\ Len(ForBytePasses) <= 15
    /\ \A k \in 1..Len(ForBytePasses) :
         /\ ForBytePasses[k][2] = ForInitial + ForStep * (k - 1)
         /\ ForBytePasses[k][2] \in 0..255
         /\ ForBytePasses[k][2] < ForLimit
    /\ (ip = GutmannForByte /\ st = "loop" /\ PassJustDone) =>
         /\ content = Fill(fileData.fileSize, i - ForStep)
         /\ intended = content
         /\ ForBytePasses[Len(ForBytePasses)][2] = i - ForStep
    /\ (ip > GutmannForByte /\ st # "rejected") =>
         /\ Len(ForBytePasses) = 15
         /\ ForBytePasses[15][2] = 238
    /\ (ip = GutmannForByte + 1 /\ st = "dispatch") => i = 255

\* gutmann's forByte has ended on a file of several chunks, the last pass
\* having filled it with 0xEE.
C19_Witness ==
  /\ std = "gutmann" /\ ip = GutmannForByte + 1 /\ st = "dispatch"
  /\ Len(ForBytePasses) = 15
  /\ Len(orig) = MaxSize /\ kMaxLength = 1
  /\ content = Fill(MaxSize, 238)

\* C17: a directory that is empty when the mark hook first visits it is
\* dealt with in that one visit: the hook emits one mark event for the path
\* and succeeds (unless readdir itself fails), never fails with the deletion
\* error, never adds the path to folderSet and removes nothing from it (the
\* parent, added on its own first visit, is still there while and after the
\* hook runs on the empty directory).
C17_EmptySingleVisit ==
  \A r \in reqs, d \in Dirs :
    ~NonEmpty(d) =>
      /\ visits[r][d] \in {<<>>, <<"ok">>, <<"EACCES">>}
      /\ MarkCount(r, d) = (IF visits[r][d] = <<"ok">> THEN 1 ELSE 0)
      /\ d \notin folderSet
      /\ d \notin added[r]
      /\ (phase[r] = "hook" /\ hdir[r] = d) => folderSet = {D}
      /\ (visits[r][d] = <<"ok">> /\ Len(visits[r][D]) = 1) => folderSet = {D}

\* The empty subdirectory has been marked in one visit while its parent is
\* still tracked.
C17_Witness ==
  /\ reqs = {1} /\ nFiles[E] = 0
  /\ visits[1][E] = <<"ok">>
  /\ visits[1][D] = <<"ENOTEMPTY">>
  /\ MarkCount(1, E) = 1
  /\ folderSet = {D}

\* The removed events request r has emitted for the renamed directory d.
RemovedCount(r, d) ==
  Cardinality({k \in 1..Len(emitted[r]) : emitted[r][k] = <<"removed", <<d, "renamed">>>>})

\* TRUE when d held an entry when the removal started.
HadEntries(d) == d = D \/ nFiles[d] > 0

\* C18 as claimed: the secure directory hook renames and then removes the
\* directory with no fail-first/retry handshake (it never fails with the
\* deletion error and is never called a second time) and never touches
\* folderSet; once it has succeeded the directory exists under neither name.
C18_NoHandshake ==
  \A r \in reqs, d \in Dirs :
    LET v == visits[r][d] IN
    /\ folderSet = {} /\ added[r] = {}
    /\ Len(v) <= 1
    /\ \A k \in 1..Len(v) : v[k] # "ENOTEMPTY"
    /\ (v # <<>> /\ v[Len(v)] = "ok") => dname[d] = "gone"

\* C18 amended: on a directory without entries the secure hook renames it
\* and then removes the renamed path, unconditionally; on a directory with
\* entries it fails first with the deletion error, renaming nothing, and is
\* called once more after the children are gone. It never reads or changes
\* folderSet, never addresses a path that does not exist, and once it has
\* succeeded the directory exists under neither name and one removed event
\* carries the renamed path.
C18_SecureDirHook ==
  \A r \in reqs, d \in Dirs :
    LET v == visits[r][d] IN
    /\ folderSet = {} /\ added[r] = {}
    /\ Len(v) <= 2
    /\ \A k \in 1..Len(v) :
         /\ v[k] # "ENOENT"
         /\ v[k] = "ENOTEMPTY" => k = 1
    /\ Len(v) = 2 => v[1] = "ENOTEMPTY"
    /\ (v # <<>> /\ v[1] = "ok") => ~HadEntries(d)
    /\ (phase[r] = "hook" /\ hstep[r] = "end" /\ hdir[r] = d) =>
         dname[d] = "renamed" /\ ~HasEntries(r, d)
    /\ dname[d] = "gone" <=> (v # <<>> /\ v[Len(v)] = "ok")
    /\ RemovedCount(r, d) = (IF dname[d] = "gone" THEN 1 ELSE 0)
    /\ phase[r] \in {"resolved", "done"} => dname[d] = "gone"

\* The tree is removed: the empty subdirectory in one visit, the root in two.
C18_Witness ==
  /\ reqs = {1} /\ phase[1] = "done"
  /\ nFiles[E] = 0 /\ nFiles[D] = MaxFiles
  /\ visits[1][E] = <<"ok">>
  /\ visits[1][D] = <<"ENOTEMPTY", "ok">>
  /\ dname[D] = "gone" /\ dname[E] = "gone"
  /\ RemovedCount(1, D) = 1

\* C20: called on a directory that still has entries, the secure directory
\* hook fails with the deletion error without renaming anything and without
\* touching the children: the directory keeps its original path until the
\* traversal, having removed the children, calls the hook again on that
\* same path, which then exists.
C20_FailsWithoutRename ==
  \A r \in reqs, d \in Dirs :
    LET v == visits[r][d] IN
    /\ (HadEntries(d) /\ v # <<>>) => v[1] \in {"ENOTEMPTY", "EACCES"}
    /\ (v = <<"ENOTEMPTY">> /\ ~(phase[r] = "hook" /\ hdir[r] = d /\ hstep[r] = "end")) =>
         dname[d] = "orig"
    /\ dname[d] # "orig" => ~HasEntries(r, d)
    /\ (phase[r] = "hook" /\ hdir[r] = d /\ v = <<>>) =>
         /\ fdone[r][d] = 0
         /\ d = D => dname[E] = "orig"
    /\ (phase[r] = "hook" /\ hdir[r] = d /\ hstep[r] = "readdir") => dname[d] = "orig"
    /\ \A k \in 1..Len(v) : v[k] # "ENOENT"

\* The root failed on its first visit; its two files and its subdirectory
\* are gone and the hook is called again on the original path.
C20_Witness ==
  /\ reqs = {1} /\ phase[1] = "hook" /\ hdir[1] = D /\ hstep[1] = "readdir"
  /\ visits[1][D] = <<"ENOTEMPTY">>
  /\ nFiles[D] = MaxFiles /\ fdone[1][D] = MaxFiles
  /\ dname[E] = "gone" /\ dname[D] = "orig"

\* C21: a hook calls its callback exactly once: never more than once at any
\* point, and once it is over exactly once, with null when the whole
\* sequence succeeded or with the error when a step failed, also when the
\* callback raises while it is called with null.
C21_CallbackOnce ==
  /\ Len(cbs) <= 1
  /\ st = "done" =>
       /\ Len(cbs) = 1
       /\ cbs[1] = NoErr <=> ip > Len(Program(std))
       /\ cbs[1] # NoErr => cbs[1] = err

\* The positions in io of the successful calls of kind c on descriptor f.
CallsOn(c, f) == {k \in 1..Len(io) : io[k].call = c /\ io[k].fd = f /\ io[k].ok}

FdOps == {"read", "write", "ftruncate", "futimes"}

\* C22: once a standard's file hook has succeeded, no descriptor is open,
\* every descriptor opened during the hook (one by init, a second one by
\* secure's rename) was closed exactly once, with no failed close, and every
\* read, write, ftruncate and futimes was issued on a descriptor after its
\* open and before its close.
C22_DescriptorsClosedOnce ==
  Succeeded =>
    /\ OpenFds = {}
    /\ \A k \in 1..Len(io) : io[k].call = "close" => io[k].ok
    /\ \A f \in DOMAIN fds :
         /\ Cardinality(CallsOn("open", f)) = (IF fds[f] = "unused" THEN 0 ELSE 1)
         /\ Cardinality(CallsOn("close", f)) = Cardinality(CallsOn("open", f))
    /\ Cardinality(CallsOn("open", 1)) = (IF std = "mark" THEN 0 ELSE 1)
    /\ Cardinality(CallsOn("open", 2)) = (IF std = "secure" THEN 1 ELSE 0)
    /\ \A k \in 1..Len(io) :
         io[k].call \in FdOps =>
           /\ \E o \in CallsOn("open", io[k].fd) : o < k
           /\ \A c \in CallsOn("close", io[k].fd) : k < c

\* secure has succeeded on a file written in several chunks: two
\* descriptors were opened and closed, the second one used by ftruncate and
\* futimes.
C22_Witness ==
  /\ SecureDone
  /\ Len(orig) = MaxSize /\ kMaxLength = 1
  /\ fds = <<"closed", "closed">>
  /\ CallsOn("write", 1) # {} /\ CallsOn("ftruncate", 2) # {} /\ CallsOn("futimes", 2) # {}
====
